---------------------------- MODULE Spec2Model ----------------------------
(***************************************************************************)
(* Model of the solarium cluster-bootstrap tools:                          *)
(*   - clap-utils : parse_percentage                      (PctSpec)        *)
(*   - keygen     : prompt_passphrase                     (PromptSpec)     *)
(*   - keygen     : the `new` sub-command of main         (KeygenSpec)     *)
(*   - genesis    : main and add_validator_accounts       (GenesisSpec)    *)
(* Each tool is a single-threaded run-to-completion process; each has its  *)
(* own program counter and its own specification.  The variables of the    *)
(* tools that a specification does not run stay at their idle values.      *)
(***************************************************************************)
EXTENDS Integers, Sequences, FiniteSets, TLC

VARIABLES
    \* ---- clap-utils: one call of parse_percentage
    p_pc,          \* "call" | "done"
    p_input,       \* the &str argument
    p_result,      \* the Result<u8, String> returned
    \* ---- keygen: one call of prompt_passphrase
    pp_pc,         \* "call" | "done"
    pp_terminal,   \* what the user will type at each prompt
    pp_prompts,    \* the prompts issued so far, in order, with what was entered
    pp_result,     \* the Result<String, Box<dyn Error>> returned
    \* ---- keygen: one run of `keygen new`
    k_pc,          \* position in main
    k_args,        \* the command line as clap's ArgMatches presents it
    k_build,       \* "debug" | "release": whether clap verifies argument ids
    k_fs,          \* the filesystem: path -> file content, or NoFile
    k_outfile,     \* Option<&str>: the resolved output path
    k_mnemonic,    \* the generated seed phrase
    k_passphrase,  \* the passphrase acquired
    k_message,     \* passphrase_message
    k_prompts,     \* prompts issued to the terminal (input not echoed)
    k_keypair,     \* the derived keypair
    k_stdout,      \* what was written to standard output, in order
    k_calls,       \* the calls made to output_keypair (outfile of each)
    k_exit,        \* the process result: "running" | "ok" | an error
    \* ---- genesis: one run of the genesis tool
    g_pc,          \* position in main / add_validator_accounts
    g_args,        \* the command line as clap's ArgMatches presents it
    g_rent,        \* the Rent built from the command line
    g_poh,         \* poh_config
    g_measured,    \* Option<u64>: what compute_hashes_per_tick returned
    g_accounts,    \* genesis_config.accounts: BTreeMap<Pubkey, Account>
    g_iter,        \* pubkeys_iter: how many pubkeys it has yielded
    g_error,       \* Option: the io::Error add_validator_accounts returned
    g_issued,      \* Option<u64>: issued_lamports
    g_stdout,      \* lines written to standard output, in order
    g_stderr,      \* lines written to standard error, in order
    g_ledger,      \* Option: the accounts handed to create_new_ledger
    g_exit         \* Option<i32>: the exit status once the process ended

pvars  == <<p_pc, p_input, p_result>>
ppvars == <<pp_pc, pp_terminal, pp_prompts, pp_result>>
kvars  == <<k_pc, k_args, k_build, k_fs, k_outfile, k_mnemonic, k_passphrase,
            k_message, k_prompts, k_keypair, k_stdout, k_calls, k_exit>>
gvars  == <<g_pc, g_args, g_rent, g_poh, g_measured, g_accounts, g_iter, g_error,
            g_issued, g_stdout, g_stderr, g_ledger, g_exit>>
vars   == <<pvars, ppvars, kvars, gvars>>

\* What a step of one tool leaves alone: the other tools.
NotPct     == UNCHANGED <<ppvars, kvars, gvars>>
NotPrompt  == UNCHANGED <<pvars, kvars, gvars>>
NotKeygen  == UNCHANGED <<pvars, ppvars, gvars>>
NotGenesis == UNCHANGED <<pvars, ppvars, kvars>>

-----------------------------------------------------------------------------
(* Option<T>: None is the empty sequence, Some(x) the one-element sequence. *)
None      == << >>
Some(x)   == << x >>
IsSome(o) == o # << >>
Unwrap(o) == o[1]

(***************************************************************************)
(* Strings are sequences of characters.  The alphabet is the decimal       *)
(* digits, the two signs and one letter standing for every other byte.     *)
(***************************************************************************)
Digits   == {"0", "1", "2", "3", "4", "5", "6", "7", "8", "9"}
Alphabet == Digits \cup {"+", "-", "a"}

MaxStrLen == 3

RECURSIVE StringsOfLen(_)
StringsOfLen(n) ==
    IF n = 0 THEN { << >> }
    ELSE { Append(s, c) : s \in StringsOfLen(n - 1), c \in Alphabet }

Strings == UNION { StringsOfLen(n) : n \in 0..MaxStrLen }

\* char::to_digit(10) on a decimal digit
DigitValue(c) ==
    CASE c = "0" -> 0 [] c = "1" -> 1 [] c = "2" -> 2 [] c = "3" -> 3
      [] c = "4" -> 4 [] c = "5" -> 5 [] c = "6" -> 6 [] c = "7" -> 7
      [] c = "8" -> 8 [] c = "9" -> 9

RADIX == 10
U8_MAX == 255
PERCENT_MAX == 100

ParseOk(v)     == [ok |-> TRUE,  value |-> v, kind |-> "none"]
ParseErr(kind) == [ok |-> FALSE, value |-> 0, kind |-> kind]

(***************************************************************************)
(* str::parse::<uN>() for an unsigned type with maximum `max`              *)
(* (core::num from_str_radix, radix 10): the empty string is Empty; a lone *)
(* sign is InvalidDigit; one leading '+' is skipped; '-' is not a sign of  *)
(* an unsigned type and is an invalid digit; every further character must  *)
(* be a digit; the accumulator is advanced with checked_mul and            *)
(* checked_add, either overflow being PosOverflow.                         *)
(***************************************************************************)
RECURSIVE FoldDigits(_, _, _, _)
FoldDigits(digits, i, acc, max) ==
    IF i > Len(digits) THEN ParseOk(acc)
    ELSE IF digits[i] \notin Digits THEN ParseErr("InvalidDigit")
    ELSE IF acc > max \div RADIX THEN ParseErr("PosOverflow")
    ELSE IF acc * RADIX > max - DigitValue(digits[i]) THEN ParseErr("PosOverflow")
    ELSE FoldDigits(digits, i + 1, acc * RADIX + DigitValue(digits[i]), max)

ParseUnsigned(src, max) ==
    IF src = << >> THEN ParseErr("Empty")
    ELSE IF src[1] \in {"+", "-"} /\ Len(src) = 1 THEN ParseErr("InvalidDigit")
    ELSE IF src[1] = "+" THEN FoldDigits(Tail(src), 1, 0, max)
    ELSE FoldDigits(src, 1, 0, max)

-----------------------------------------------------------------------------
(***************************************************************************)
(* clap-utils: parse_percentage                                            *)
(***************************************************************************)
\* Result<u8, String>; the String is the message prefix, the value it
\* reports as "provided" and the ParseIntError it reports as "err".
PctOk(v) == [ok |-> TRUE, value |-> v, msg |-> "", provided |-> << >>, err |-> "none"]
PctErr(msg, provided, err) ==
    [ok |-> FALSE, value |-> 0, msg |-> msg, provided |-> provided, err |-> err]

MSG_UNABLE_TO_PARSE == "Unable to parse input percentage"
MSG_OUT_OF_RANGE    == "Percentage must be in range of 0 to 100"

\* Mutant: the range test is `v >= 100`.
parse_percentage_off_by_one(percentage) ==
    LET r == ParseUnsigned(percentage, U8_MAX) IN
    IF ~r.ok THEN PctErr(MSG_UNABLE_TO_PARSE, percentage, r.kind)
    ELSE IF r.value >= PERCENT_MAX THEN PctErr(MSG_OUT_OF_RANGE, r.value, "none")
    ELSE PctOk(r.value)

\* Mutant: the text is parsed as a 16-bit integer before the range test.
parse_percentage_wide(percentage) ==
    LET r == ParseUnsigned(percentage, 65535) IN
    IF ~r.ok THEN PctErr(MSG_UNABLE_TO_PARSE, percentage, r.kind)
    ELSE IF r.value > PERCENT_MAX THEN PctErr(MSG_OUT_OF_RANGE, r.value, "none")
    ELSE PctOk(r.value)

parse_percentage(percentage) ==
    LET r == ParseUnsigned(percentage, U8_MAX) IN
    IF ~r.ok THEN PctErr(MSG_UNABLE_TO_PARSE, percentage, r.kind)
    ELSE IF r.value > PERCENT_MAX THEN PctErr(MSG_OUT_OF_RANGE, r.value, "none")
    ELSE PctOk(r.value)

PctIdle ==
    /\ p_pc = "off"
    /\ p_input = << >>
    /\ p_result = PctOk(0)

PctInit ==
    /\ p_pc = "call"
    /\ p_input \in Strings
    /\ p_result = PctOk(0)

CallParsePercentage ==
    /\ p_pc = "call"
    /\ p_result' = parse_percentage(p_input)
    /\ p_pc' = "done"
    /\ UNCHANGED p_input
    /\ NotPct

-----------------------------------------------------------------------------
(***************************************************************************)
(* keygen: prompt_passphrase                                               *)
(*                                                                         *)
(* rpassword::prompt_password blocks on the terminal and returns what was  *)
(* typed, or an I/O error.  The terminal is a script: its i-th element is  *)
(* the reply the i-th prompt would get.                                    *)
(***************************************************************************)
PassphraseEntries == { << >>, <<"a">>, <<"b">>, <<"a", "b">> }

Typed(text) == [io_ok |-> TRUE,  text |-> text]
IoFailure   == [io_ok |-> FALSE, text |-> << >>]
TerminalReplies == { Typed(t) : t \in PassphraseEntries } \cup { IoFailure }

TerminalScriptLen == 3
TerminalScripts == [1..TerminalScriptLen -> TerminalReplies]

CONFIRM_PROMPT == "Enter same passphrase again: "
ERR_IO         == "io error"
ERR_MISMATCH   == "Passphrases did not match"

PassOk(text) == [ok |-> TRUE,  value |-> text, err |-> ""]
PassErr(e)   == [ok |-> FALSE, value |-> << >>, err |-> e]

Prompted(prompt, reply) == [prompt |-> prompt, reply |-> reply]

\* Mutant: a mismatch asks for the confirmation once more.
prompt_passphrase_retry(prompt, script) ==
    LET first == script[1]
        p1    == << Prompted(prompt, first) >>
    IN  IF ~first.io_ok THEN [prompts |-> p1, result |-> PassErr(ERR_IO)]
        ELSE IF first.text # << >> THEN
            LET second == script[2]
                p2     == Append(p1, Prompted(CONFIRM_PROMPT, second))
            IN  IF ~second.io_ok THEN [prompts |-> p2, result |-> PassErr(ERR_IO)]
                ELSE IF second.text # first.text THEN
                    LET third == script[3]
                        p3    == Append(p2, Prompted(CONFIRM_PROMPT, third))
                    IN  IF third.io_ok /\ third.text = first.text
                        THEN [prompts |-> p3, result |-> PassOk(first.text)]
                        ELSE [prompts |-> p3, result |-> PassErr(ERR_MISMATCH)]
                ELSE [prompts |-> p2, result |-> PassOk(first.text)]
        ELSE [prompts |-> p1, result |-> PassOk(first.text)]

\* The prompts issued, in order, and the value returned.
prompt_passphrase(prompt, script) ==
    LET first == script[1]
        p1    == << Prompted(prompt, first) >>
    IN  IF ~first.io_ok THEN [prompts |-> p1, result |-> PassErr(ERR_IO)]
        ELSE IF first.text # << >> THEN
            LET second == script[2]
                p2     == Append(p1, Prompted(CONFIRM_PROMPT, second))
            IN  IF ~second.io_ok THEN [prompts |-> p2, result |-> PassErr(ERR_IO)]
                ELSE IF second.text # first.text
                    THEN [prompts |-> p2, result |-> PassErr(ERR_MISMATCH)]
                    ELSE [prompts |-> p2, result |-> PassOk(first.text)]
        ELSE [prompts |-> p1, result |-> PassOk(first.text)]

PromptIdle ==
    /\ pp_pc = "off"
    /\ pp_terminal = << >>
    /\ pp_prompts = << >>
    /\ pp_result = PassOk(<< >>)

PROMPT_TEXT == "Passphrase: "

PromptInit ==
    /\ pp_pc = "call"
    /\ pp_terminal \in TerminalScripts
    /\ pp_prompts = << >>
    /\ pp_result = PassOk(<< >>)

\* One call of prompt_passphrase at the terminal.
CallPromptPassphrase ==
    /\ pp_pc = "call"
    /\ LET run == prompt_passphrase(PROMPT_TEXT, pp_terminal) IN
         /\ pp_prompts' = run.prompts
         /\ pp_result' = run.result
    /\ pp_pc' = "done"
    /\ UNCHANGED pp_terminal
    /\ NotPrompt

-----------------------------------------------------------------------------
(***************************************************************************)
(* keygen: the `new` sub-command                                           *)
(***************************************************************************)
\* clap: the ids registered on the `new` command.  "force", "silent" and
\* "no_passphrase" are ArgAction::SetTrue flags; "word_count" and "language"
\* carry a default_value; "outfile" has no default.
KeygenFlagIds    == {"force", "silent", "no_passphrase"}
KeygenDefaultIds == {"word_count", "language"}
KeygenArgIds     == {"outfile"} \cup KeygenFlagIds \cup KeygenDefaultIds

NO_OUTFILE_ARG_NAME    == "no_outfile"
NO_PASSPHRASE_ARG_NAME == "no_passphrase"
NO_PASSPHRASE          == << >>
STDOUT_OUTFILE_TOKEN   == "-"
DEFAULT_KEYPAIR_PATH   == "~/.config/blockchain/id.json"

\* ArgMatches::try_contains_id.  An id is present when it holds a value,
\* and a SetTrue flag or an argument with a default_value always holds one
\* (false, or the default, when it was not on the command line).  An id that
\* was never registered is Err(UnknownArgument) where clap verifies ids
\* (builds with debug assertions) and Ok(false) where it does not.
TryContainsId(matches, id, build) ==
    IF id = "outfile" THEN [ok |-> TRUE, value |-> IsSome(matches.outfile)]
    ELSE IF id \in KeygenFlagIds \cup KeygenDefaultIds THEN [ok |-> TRUE, value |-> TRUE]
    ELSE IF build = "debug" THEN [ok |-> FALSE, value |-> FALSE]
    ELSE [ok |-> TRUE, value |-> FALSE]

\* ArgMatches::get_flag
GetFlag(matches, id) == matches[id]

KeygenPaths == {STDOUT_OUTFILE_TOKEN, "key.json", DEFAULT_KEYPAIR_PATH}

FileAbsent      == [kind |-> "absent"]
FileOld         == [kind |-> "old"]       \* content that was there before the run
FilePartial     == [kind |-> "partial"]   \* left behind by a failed write
FileKeypair(kp) == [kind |-> "keypair", keypair |-> kp]

\* Path::exists
PathExists(fs, path) == fs[path] # FileAbsent

Entropies == {1, 2}
NewMnemonic(word_count, entropy) == [word_count |-> word_count, entropy |-> entropy]

\* Seed::new followed by keypair_from_seed: a function of the phrase and
\* the passphrase, and of nothing else.
KeypairFromSeed(mnemonic, passphrase) == [mnemonic |-> mnemonic, passphrase |-> passphrase]
PubkeyOf(keypair) == [pubkey_of |-> keypair]

BIP39_PROMPT == "BIP39 Passphrase (empty for none): "
BIP39_MESSAGE == " and your BIP39 passphrase"

ERR_UNKNOWN_ARG == "Unknown argument or group id"
ERR_ACQUIRE     == "Unable to acquire passphrase"
ERR_OVERWRITE   == "Refusing to overwrite without --force flag"
ERR_WRITE       == "Unable to write"

KeygenCommandLines ==
    [outfile : {None, Some(STDOUT_OUTFILE_TOKEN), Some("key.json")},
     force : BOOLEAN, silent : BOOLEAN, no_passphrase : BOOLEAN,
     word_count : {12, 24}]

KeygenIdle ==
    /\ k_pc = "off"
    /\ k_args = << >>
    /\ k_build = "release"
    /\ k_fs = << >>
    /\ k_outfile = None
    /\ k_mnemonic = None
    /\ k_passphrase = << >>
    /\ k_message = ""
    /\ k_prompts = << >>
    /\ k_keypair = None
    /\ k_stdout = << >>
    /\ k_calls = << >>
    /\ k_exit = "running"

KeygenInit ==
    /\ k_pc = "outfile"
    /\ k_args \in KeygenCommandLines
    /\ k_build \in {"debug", "release"}
    /\ k_fs \in [KeygenPaths -> {FileAbsent, FileOld}]
    /\ k_outfile = None
    /\ k_mnemonic = None
    /\ k_passphrase = << >>
    /\ k_message = ""
    /\ k_prompts = << >>
    /\ k_keypair = None
    /\ k_stdout = << >>
    /\ k_calls = << >>
    /\ k_exit = "running"

\* main returns Err(e): the process ends with a failure status.
KeygenFail(e) ==
    /\ k_pc' = "exit"
    /\ k_exit' = e

\* main: the output path
ResolveOutfile ==
    /\ k_pc = "outfile"
    /\ LET has_outfile == TryContainsId(k_args, "outfile", k_build)
           no_outfile  == TryContainsId(k_args, NO_OUTFILE_ARG_NAME, k_build)
       IN  IF has_outfile.value
           THEN /\ k_outfile' = k_args.outfile
                /\ k_pc' = "generate"
                /\ UNCHANGED k_exit
           ELSE IF ~no_outfile.ok
           THEN /\ KeygenFail(ERR_UNKNOWN_ARG)
                /\ UNCHANGED k_outfile
           ELSE /\ k_outfile' = IF no_outfile.value THEN None
                                ELSE Some(DEFAULT_KEYPAIR_PATH)
                /\ k_pc' = "generate"
                /\ UNCHANGED k_exit
    /\ UNCHANGED <<k_args, k_build, k_fs, k_mnemonic, k_passphrase, k_message,
                   k_prompts, k_keypair, k_stdout, k_calls>>
    /\ NotKeygen

\* main: word count, language, the banner and the random mnemonic
GenerateMnemonic ==
    /\ k_pc = "generate"
    /\ \E entropy \in Entropies :
         k_mnemonic' = Some(NewMnemonic(k_args.word_count, entropy))
    /\ k_stdout' = IF ~GetFlag(k_args, "silent")
                   THEN Append(k_stdout, [what |-> "generating"])
                   ELSE k_stdout
    /\ k_pc' = "acquire"
    /\ UNCHANGED <<k_args, k_build, k_fs, k_outfile, k_passphrase, k_message,
                   k_prompts, k_keypair, k_calls, k_exit>>
    /\ NotKeygen

\* The (passphrase, message) pairs, with the prompts issued, that
\* acquire_passphrase_and_message can return for a command line.
acquire_passphrase_and_message(matches, build) ==
    IF TryContainsId(matches, NO_PASSPHRASE_ARG_NAME, build).value
    THEN { [prompts |-> << >>, result |-> PassOk(NO_PASSPHRASE), message |-> ""] }
    ELSE { [prompts |-> run.prompts, result |-> run.result, message |-> BIP39_MESSAGE] :
             run \in { prompt_passphrase(BIP39_PROMPT, script) : script \in TerminalScripts } }

\* main: acquire_passphrase_and_message(matches).map_err(..)?
AcquirePassphrase ==
    /\ k_pc = "acquire"
    /\ \E got \in acquire_passphrase_and_message(k_args, k_build) :
         /\ k_prompts' = got.prompts
         /\ IF got.result.ok
            THEN /\ k_passphrase' = got.result.value
                 /\ k_message' = got.message
                 /\ k_stdout' = IF got.prompts # << >>
                                THEN Append(k_stdout, [what |-> "newline"])
                                ELSE k_stdout
                 /\ k_pc' = "derive"
                 /\ UNCHANGED k_exit
            ELSE /\ KeygenFail(ERR_ACQUIRE)
                 /\ UNCHANGED <<k_passphrase, k_message, k_stdout>>
    /\ UNCHANGED <<k_args, k_build, k_fs, k_outfile, k_mnemonic, k_keypair, k_calls>>
    /\ NotKeygen

\* main: Seed::new and keypair_from_seed
DeriveKeypair ==
    /\ k_pc = "derive"
    /\ k_keypair' = Some(KeypairFromSeed(Unwrap(k_mnemonic), k_passphrase))
    /\ k_pc' = IF IsSome(k_outfile) THEN "check" ELSE "display"
    /\ UNCHANGED <<k_args, k_build, k_fs, k_outfile, k_mnemonic, k_passphrase,
                   k_message, k_prompts, k_stdout, k_calls, k_exit>>
    /\ NotKeygen

\* Mutant: the guard refuses only when --force is given.
check_for_overwrite_inverted(outfile, matches, fs) ==
    ~(GetFlag(matches, "force") /\ PathExists(fs, outfile))

\* check_for_overwrite: TRUE is Ok(()), FALSE the refusal.
check_for_overwrite(outfile, matches, fs) ==
    ~(~GetFlag(matches, "force") /\ PathExists(fs, outfile))

\* main: check_for_overwrite(outfile, matches)?
CheckForOverwrite ==
    /\ k_pc = "check"
    /\ IF check_for_overwrite(Unwrap(k_outfile), k_args, k_fs)
       THEN /\ k_pc' = "output"
            /\ UNCHANGED k_exit
       ELSE KeygenFail(ERR_OVERWRITE)
    /\ UNCHANGED <<k_args, k_build, k_fs, k_outfile, k_mnemonic, k_passphrase,
                   k_message, k_prompts, k_keypair, k_stdout, k_calls>>
    /\ NotKeygen

\* output_keypair: the (ok, filesystem, standard output) outcomes.  The
\* writes go to the operating system and can fail; a failed file write may
\* already have created or truncated the file.
output_keypair(keypair, outfile, fs, stdout) ==
    IF outfile = STDOUT_OUTFILE_TOKEN
    THEN { [ok |-> TRUE, fs |-> fs,
            stdout |-> Append(stdout, [what |-> "keypair", keypair |-> keypair])],
           [ok |-> FALSE, fs |-> fs, stdout |-> stdout] }
    ELSE { [ok |-> TRUE, fs |-> [fs EXCEPT ![outfile] = FileKeypair(keypair)],
            stdout |-> Append(stdout, [what |-> "wrote", outfile |-> outfile])],
           [ok |-> FALSE, fs |-> fs, stdout |-> stdout],
           [ok |-> FALSE, fs |-> [fs EXCEPT ![outfile] = FilePartial], stdout |-> stdout] }

\* main: output_keypair(&keypair, outfile, "new").map_err(..)?
OutputKeypair ==
    /\ k_pc = "output"
    /\ k_calls' = Append(k_calls, Unwrap(k_outfile))
    /\ \E out \in output_keypair(Unwrap(k_keypair), Unwrap(k_outfile), k_fs, k_stdout) :
         /\ k_fs' = out.fs
         /\ k_stdout' = out.stdout
         /\ IF out.ok
            THEN /\ k_pc' = "display"
                 /\ UNCHANGED k_exit
            ELSE KeygenFail(ERR_WRITE)
    /\ UNCHANGED <<k_args, k_build, k_outfile, k_mnemonic, k_passphrase,
                   k_message, k_prompts, k_keypair>>
    /\ NotKeygen

\* Mutant: the display does not look at --silent.
Display_ignoring_silent ==
    /\ k_pc = "display"
    /\ k_stdout' = Append(k_stdout,
                          [what |-> "seed",
                           pubkey |-> PubkeyOf(Unwrap(k_keypair)),
                           message |-> k_message,
                           phrase |-> Unwrap(k_mnemonic)])
    /\ k_pc' = "exit"
    /\ k_exit' = "ok"
    /\ UNCHANGED <<k_args, k_build, k_fs, k_outfile, k_mnemonic, k_passphrase,
                   k_message, k_prompts, k_keypair, k_calls>>
    /\ NotKeygen

\* main: the seed phrase display, then Ok(())
Display ==
    /\ k_pc = "display"
    /\ k_stdout' = IF ~GetFlag(k_args, "silent")
                   THEN Append(k_stdout,
                               [what |-> "seed",
                                pubkey |-> PubkeyOf(Unwrap(k_keypair)),
                                message |-> k_message,
                                phrase |-> Unwrap(k_mnemonic)])
                   ELSE k_stdout
    /\ k_pc' = "exit"
    /\ k_exit' = "ok"
    /\ UNCHANGED <<k_args, k_build, k_fs, k_outfile, k_mnemonic, k_passphrase,
                   k_message, k_prompts, k_keypair, k_calls>>
    /\ NotKeygen

-----------------------------------------------------------------------------
(***************************************************************************)
(* genesis                                                                 *)
(***************************************************************************)
\* Pubkeys are the numbers 0 .. NKeys-1; Pubkey's Ord is the order of the
\* numbers.  Key 0 is the stake-config account id of the stake program.
NKeys      == 6
Pubkeys    == 0..(NKeys - 1)
MaxTriples == NKeys \div 3      \* more triples cannot be pairwise distinct

\* The model's u64 has U64_BITS bits.
U64_BITS == 16
U64_MAX  == 2^U64_BITS - 1

ACCOUNT_STORAGE_OVERHEAD == 128
STAKE_STATE_SIZE         == 200      \* StakeStateV2::size_of()
VOTE_STATE_SIZE          == 3762     \* VoteStateV3::size_of()
DEFAULT_HASHES_PER_TICK  == 12500    \* clock::DEFAULT_HASHES_PER_TICK
DEFAULT_TICK_MICROS      == 6250     \* PohConfig::default().target_tick_duration
StakeConfigId            == 0

ClusterTypes == {"Development", "Devnet", "Testnet", "MainnetBeta"}

\* Rent::minimum_balance, for an exemption threshold that is a whole
\* number of years.
minimum_balance(rent, data_len) ==
    ((ACCOUNT_STORAGE_OVERHEAD + data_len) * rent.lamports_per_byte_year)
        * rent.exemption_threshold

\* slice::sort on a Vec<Pubkey>
RECURSIVE SortPubkeys(_)
SortPubkeys(v) ==
    IF v = << >> THEN << >>
    ELSE LET rest == SortPubkeys(Tail(v))
             x    == Head(v)
         IN  SelectSeq(rest, LAMBDA y : y < x) \o << x >>
                 \o SelectSeq(rest, LAMBDA y : y >= x)

\* Vec::dedup: removes consecutive repeated elements
RECURSIVE Dedup(_)
Dedup(v) ==
    IF Len(v) <= 1 THEN v
    ELSE IF v[1] = v[2] THEN Dedup(Tail(v))
    ELSE << v[1] >> \o Dedup(Tail(v))

\* Mutant: dedup without the sort.
has_duplicate_pubkeys_unsorted(pubkeys) ==
    Len(Dedup(pubkeys)) # Len(pubkeys)

\* main: v.sort(); v.dedup(); v.len() != bootstrap_validator_pubkeys.len()
has_duplicate_pubkeys(pubkeys) ==
    Len(Dedup(SortPubkeys(pubkeys))) # Len(pubkeys)

AUTO  == <<"a", "u", "t", "o">>
SLEEP == <<"s", "l", "e", "e", "p">>

HpOk(h)  == [fatal |-> FALSE, hashes_per_tick |-> h, err |-> "none"]
HpFatal(e) == [fatal |-> TRUE, hashes_per_tick |-> None, err |-> e]

\* Mutant: the Development "auto" value is the measured peak, not half of it.
resolve_hashes_per_tick_peak(literal, cluster_type, measured) ==
    IF literal = AUTO THEN
        IF cluster_type = "Development" THEN HpOk(Some(measured))
        ELSE HpOk(Some(DEFAULT_HASHES_PER_TICK))
    ELSE IF literal = SLEEP THEN HpOk(None)
    ELSE LET r == ParseUnsigned(literal, U64_MAX) IN
         IF r.ok THEN HpOk(Some(r.value)) ELSE HpFatal(r.kind)

\* main: the match on --hashes-per-tick.  `measured` is what
\* compute_hashes_per_tick returns for the target tick duration.
resolve_hashes_per_tick(literal, cluster_type, measured) ==
    IF literal = AUTO THEN
        IF cluster_type = "Development" THEN HpOk(Some(measured \div 2))
        ELSE HpOk(Some(DEFAULT_HASHES_PER_TICK))
    ELSE IF literal = SLEEP THEN HpOk(None)
    ELSE LET r == ParseUnsigned(literal, U64_MAX) IN
         IF r.ok THEN HpOk(Some(r.value)) ELSE HpFatal(r.kind)

\* Mutant: the result of the comparison is dropped.
rent_exempt_check_ignored(stake_lamports, exempt) == None

\* Mutant: the comparison is `<=`.
rent_exempt_check_le(stake_lamports, exempt) ==
    IF stake_lamports <= exempt
    THEN Some([msg |-> "insufficient validator stake lamports",
               provided |-> stake_lamports, required |-> exempt])
    ELSE None

\* rent_exempt_check: None is Ok(()), Some(e) is Err(e).
rent_exempt_check(stake_lamports, exempt) ==
    IF stake_lamports < exempt
    THEN Some([msg |-> "insufficient validator stake lamports",
               provided |-> stake_lamports, required |-> exempt])
    ELSE None

Entry(key, account) == [key |-> key, account |-> account]

\* Mutant: the account is pushed at the end of a list.
add_account_append(accounts, pubkey, account) ==
    Append(accounts, Entry(pubkey, account))

\* GenesisConfig::add_account: BTreeMap::insert.  The map is kept as the
\* sequence of its entries in iteration order, which is key order.
add_account(accounts, pubkey, account) ==
    SelectSeq(accounts, LAMBDA e : e.key < pubkey)
        \o << Entry(pubkey, account) >>
        \o SelectSeq(accounts, LAMBDA e : e.key > pubkey)

\* AccountSharedData::new(lamports, 0, &system_program::id())
SystemAccount(lamports) ==
    [lamports |-> lamports, space |-> 0, owner |-> "system_program",
     state |-> [kind |-> "none"]]

\* vote_state::create_account_with_authorized
VoteAccount(node_pubkey, authorized_voter, authorized_withdrawer, commission, lamports) ==
    [lamports |-> lamports, space |-> VOTE_STATE_SIZE, owner |-> "vote_program",
     state |-> [kind |-> "vote", node_pubkey |-> node_pubkey,
                authorized_voter |-> authorized_voter,
                authorized_withdrawer |-> authorized_withdrawer,
                commission |-> commission]]

\* stake_state::create_account
StakeAccount(authorized, voter_pubkey, rent, lamports) ==
    [lamports |-> lamports, space |-> STAKE_STATE_SIZE, owner |-> "stake_program",
     state |-> [kind |-> "stake", staker |-> authorized, withdrawer |-> authorized,
                voter_pubkey |-> voter_pubkey,
                rent_exempt_reserve |-> minimum_balance(rent, STAKE_STATE_SIZE)]]

MaxOf(a, b) == IF a >= b THEN a ELSE b

\* Rent::default() and LAMPORTS_PER_SOL, scaled down with the integer width
\* (3480 lamports per byte-year and 10^9 lamports in the program).
DEFAULT_LAMPORTS_PER_BYTE_YEAR == 1
DEFAULT_EXEMPTION_THRESHOLD    == 2
LAMPORTS_PER_SOL               == 1400

\* main: let rent = Rent::default()
DefaultRent ==
    [lamports_per_byte_year |-> DEFAULT_LAMPORTS_PER_BYTE_YEAR,
     exemption_threshold |-> DEFAULT_EXEMPTION_THRESHOLD]

\* main: the default_value of --bootstrap-validator-stake-lamports
default_bootstrap_validator_stake_lamports ==
    MaxOf(LAMPORTS_PER_SOL \div 2, minimum_balance(DefaultRent, STAKE_STATE_SIZE))

\* Mutant: without --bootstrap-stake-authorized-pubkey the stake authority
\* is the vote key.
add_validator_triple_vote_authority(accounts, identity_pubkey, vote_pubkey, stake_pubkey, lamports, stake_lamports, commission, rent, authorized_pubkey) ==
    LET with_identity == add_account(accounts, identity_pubkey, SystemAccount(lamports))
        vote_account  == VoteAccount(identity_pubkey, identity_pubkey, identity_pubkey,
                             commission,
                             MaxOf(minimum_balance(rent, VOTE_STATE_SIZE), 1))
        authorized    == IF IsSome(authorized_pubkey) THEN Unwrap(authorized_pubkey)
                         ELSE vote_pubkey
        with_stake    == add_account(with_identity, stake_pubkey,
                             StakeAccount(authorized, vote_pubkey, rent, stake_lamports))
    IN  add_account(with_stake, vote_pubkey, vote_account)

\* Mutant: the vote account is created but never added.
add_validator_triple_no_vote(accounts, identity_pubkey, vote_pubkey, stake_pubkey, lamports, stake_lamports, commission, rent, authorized_pubkey) ==
    LET with_identity == add_account(accounts, identity_pubkey, SystemAccount(lamports))
        authorized    == IF IsSome(authorized_pubkey) THEN Unwrap(authorized_pubkey)
                         ELSE identity_pubkey
    IN  add_account(with_identity, stake_pubkey,
                    StakeAccount(authorized, vote_pubkey, rent, stake_lamports))

\* add_validator_accounts: one iteration of the loop, for the triple that
\* pubkeys_iter yields next.
add_validator_triple(accounts, identity_pubkey, vote_pubkey, stake_pubkey, lamports, stake_lamports, commission, rent, authorized_pubkey) ==
    LET with_identity == add_account(accounts, identity_pubkey, SystemAccount(lamports))
        vote_account  == VoteAccount(identity_pubkey, identity_pubkey, identity_pubkey,
                             commission,
                             MaxOf(minimum_balance(rent, VOTE_STATE_SIZE), 1))
        authorized    == IF IsSome(authorized_pubkey) THEN Unwrap(authorized_pubkey)
                         ELSE identity_pubkey
        with_stake    == add_account(with_identity, stake_pubkey,
                             StakeAccount(authorized, vote_pubkey, rent, stake_lamports))
    IN  add_account(with_stake, vote_pubkey, vote_account)

-----------------------------------------------------------------------------
(***************************************************************************)
(* The command lines of the genesis tool.  clap has parsed and validated   *)
(* every argument before main reads the first of them: the                 *)
(* --bootstrap-validator list holds a whole number of triples, and         *)
(* --faucet-pubkey always holds a value, its default_value being the key   *)
(* of the default keypair file.                                            *)
(***************************************************************************)
AllLists == UNION { [1..(3 * n) -> Pubkeys] : n \in 1..MaxTriples }

SampleLists == { <<1, 2, 3>>, <<3, 4, 5, 0, 1, 2>>, <<1, 2, 3, 4, 5, 1>> }

RentSamples == [lamports_per_byte_year : {0, 1, 2}, exemption_threshold : {2}]

StakeSamples ==
    LET mins == { minimum_balance(r, STAKE_STATE_SIZE) : r \in RentSamples }
    IN  { x \in UNION { {m - 1, m, m + 1} : m \in mins } : x >= 0 /\ x <= U64_MAX }

HashLiterals ==
    { AUTO, SLEEP, <<"6", "4">>, <<"0">>, <<"+", "7">>, <<"-", "1">>, << >>,
      <<"a", "b", "c">>, <<"6", "4", "x">>, <<"A", "U", "T", "O">>,
      <<"6", "5", "5", "3", "5">>, <<"6", "5", "5", "3", "6">>,
      <<"9", "9", "9", "9", "9", "9">> }

MeasuredSamples == {0, 1, 9, 25001}

BaseArgs ==
    [bootstrap_validator                |-> <<1, 2, 3>>,
     bootstrap_validator_lamports       |-> 500,
     bootstrap_validator_stake_lamports |-> default_bootstrap_validator_stake_lamports,
     stake_lamports_source              |-> "default",
     bootstrap_stake_authorized_pubkey  |-> None,
     faucet_lamports                    |-> None,
     faucet_pubkey                      |-> Some(4),
     lamports_per_byte_year             |-> 1,
     rent_exemption_threshold           |-> 2,
     vote_commission_percentage         |-> 100,
     target_tick_duration               |-> None,
     hashes_per_tick                    |-> AUTO,
     cluster_type                       |-> "MainnetBeta"]

\* Every --bootstrap-validator list, the other arguments as in BaseArgs.
KeysFamily ==
    { [BaseArgs EXCEPT !.bootstrap_validator = l] : l \in AllLists }

\* The rent schedule, the stake funding, the stake authority and the
\* vote commission.
RentFamily ==
    { [BaseArgs EXCEPT !.bootstrap_validator = l,
                       !.lamports_per_byte_year = r.lamports_per_byte_year,
                       !.rent_exemption_threshold = r.exemption_threshold,
                       !.bootstrap_validator_stake_lamports = s,
                       !.stake_lamports_source = "command_line",
                       !.bootstrap_stake_authorized_pubkey = a,
                       !.vote_commission_percentage = c] :
        l \in SampleLists, r \in RentSamples, s \in StakeSamples,
        a \in {None, Some(5)}, c \in {0, 100} }

\* The PoH arguments.
PohFamily ==
    { [BaseArgs EXCEPT !.hashes_per_tick = h, !.cluster_type = c,
                       !.target_tick_duration = t] :
        h \in HashLiterals, c \in ClusterTypes, t \in {None, Some(5)} }

\* The faucet arguments.
FaucetFamily ==
    { [BaseArgs EXCEPT !.bootstrap_validator = l, !.faucet_lamports = f,
                       !.faucet_pubkey = Some(k)] :
        l \in SampleLists, f \in {None, Some(7), Some(U64_MAX)}, k \in Pubkeys }

\* The rent schedule, --bootstrap-validator-stake-lamports being omitted.
DefaultStakeFamily ==
    { [BaseArgs EXCEPT !.bootstrap_validator = l,
                       !.lamports_per_byte_year = r.lamports_per_byte_year,
                       !.rent_exemption_threshold = r.exemption_threshold] :
        l \in SampleLists, r \in RentSamples }

GenesisCommandLines ==
    KeysFamily \cup RentFamily \cup PohFamily \cup FaucetFamily \cup DefaultStakeFamily

NoRent == [lamports_per_byte_year |-> 0, exemption_threshold |-> 0]
NoPoh  == [target_tick_duration |-> 0, hashes_per_tick |-> None]

GenesisIdle ==
    /\ g_pc = "off"
    /\ g_args = << >>
    /\ g_rent = NoRent
    /\ g_poh = NoPoh
    /\ g_measured = None
    /\ g_accounts = << >>
    /\ g_iter = 0
    /\ g_error = None
    /\ g_issued = None
    /\ g_stdout = << >>
    /\ g_stderr = << >>
    /\ g_ledger = None
    /\ g_exit = None

GenesisInit ==
    /\ g_pc = "pubkeys"
    /\ g_args \in GenesisCommandLines
    /\ g_rent = NoRent
    /\ g_poh = NoPoh
    /\ g_measured = None
    /\ g_accounts = << >>
    /\ g_iter = 0
    /\ g_error = None
    /\ g_issued = None
    /\ g_stdout = << >>
    /\ g_stderr = << >>
    /\ g_ledger = None
    /\ g_exit = None

ERR_DUPLICATE == "Error: --bootstrap-validator pubkeys cannot be duplicated"
ERR_HASHES    == "Error: invalid value for --hashes-per-tick"
ERR_RENT      == "Error: insufficient validator stake lamports"
ERR_LEDGER    == "Error: create_new_ledger failed"
ERR_OVERFLOW  == "panic: attempt to add with overflow"

Line(text) == [text |-> text]

\* The process ends with `status` after writing `line` to standard error.
GenesisExit(status, line) ==
    /\ g_pc' = "exit"
    /\ g_exit' = Some(status)
    /\ g_stderr' = Append(g_stderr, Line(line))

\* main: the Rent, the --bootstrap-validator list and its duplicate check
ParseBootstrapValidators ==
    /\ g_pc = "pubkeys"
    /\ g_rent' = [lamports_per_byte_year |-> g_args.lamports_per_byte_year,
                  exemption_threshold |-> g_args.rent_exemption_threshold]
    /\ IF has_duplicate_pubkeys(g_args.bootstrap_validator)
       THEN GenesisExit(1, ERR_DUPLICATE)
       ELSE /\ g_pc' = "hashes"
            /\ UNCHANGED <<g_exit, g_stderr>>
    /\ UNCHANGED <<g_args, g_poh, g_measured, g_accounts, g_iter, g_error,
                   g_issued, g_stdout, g_ledger>>
    /\ NotGenesis

\* main: the scalar arguments, poh_config and the --hashes-per-tick match
ResolveHashesPerTick ==
    /\ g_pc = "hashes"
    /\ LET duration == IF IsSome(g_args.target_tick_duration)
                       THEN Unwrap(g_args.target_tick_duration)
                       ELSE DEFAULT_TICK_MICROS
           measures == g_args.hashes_per_tick = AUTO
                           /\ g_args.cluster_type = "Development"
       IN  \E measured \in IF measures THEN MeasuredSamples ELSE {0} :
             LET r == resolve_hashes_per_tick(g_args.hashes_per_tick,
                                              g_args.cluster_type, measured)
             IN  /\ g_measured' = IF measures THEN Some(measured) ELSE None
                 /\ IF r.fatal
                    THEN /\ GenesisExit(1, ERR_HASHES)
                         /\ g_poh' = [target_tick_duration |-> duration,
                                      hashes_per_tick |-> None]
                    ELSE /\ g_poh' = [target_tick_duration |-> duration,
                                      hashes_per_tick |-> r.hashes_per_tick]
                         /\ g_pc' = "rent_check"
                         /\ UNCHANGED <<g_exit, g_stderr>>
    /\ UNCHANGED <<g_args, g_rent, g_accounts, g_iter, g_error, g_issued,
                   g_stdout, g_ledger>>
    /\ NotGenesis

\* main: the GenesisConfig is assembled with no accounts and
\* add_validator_accounts is entered: rent_exempt_check(..)?
RentExemptCheck ==
    /\ g_pc = "rent_check"
    /\ LET e == rent_exempt_check(g_args.bootstrap_validator_stake_lamports,
                                  minimum_balance(g_rent, STAKE_STATE_SIZE))
       IN  /\ g_error' = e
           /\ IF IsSome(e)
              THEN GenesisExit(1, ERR_RENT)
              ELSE /\ g_pc' = "loop"
                   /\ UNCHANGED <<g_exit, g_stderr>>
    /\ UNCHANGED <<g_args, g_rent, g_poh, g_measured, g_accounts, g_iter,
                   g_issued, g_stdout, g_ledger>>
    /\ NotGenesis

\* add_validator_accounts: the loop body, for the next triple
AddValidatorTriple ==
    /\ g_pc = "loop"
    /\ g_iter < Len(g_args.bootstrap_validator)
    /\ LET pubkeys == g_args.bootstrap_validator IN
       g_accounts' = add_validator_triple(g_accounts,
                        pubkeys[g_iter + 1], pubkeys[g_iter + 2], pubkeys[g_iter + 3],
                        g_args.bootstrap_validator_lamports,
                        g_args.bootstrap_validator_stake_lamports,
                        g_args.vote_commission_percentage,
                        g_rent,
                        g_args.bootstrap_stake_authorized_pubkey)
    /\ g_iter' = g_iter + 3
    /\ UNCHANGED <<g_pc, g_args, g_rent, g_poh, g_measured, g_error, g_issued,
                   g_stdout, g_stderr, g_ledger, g_exit>>
    /\ NotGenesis

\* add_validator_accounts: pubkeys_iter is exhausted, break, Ok(())
FinishValidatorAccounts ==
    /\ g_pc = "loop"
    /\ g_iter >= Len(g_args.bootstrap_validator)
    /\ g_pc' = "faucet"
    /\ UNCHANGED <<g_args, g_rent, g_poh, g_measured, g_accounts, g_iter, g_error,
                   g_issued, g_stdout, g_stderr, g_ledger, g_exit>>
    /\ NotGenesis

\* main: the faucet account
InsertFaucet ==
    /\ g_pc = "faucet"
    /\ g_accounts' =
         IF IsSome(g_args.faucet_pubkey)
         THEN add_account(g_accounts, Unwrap(g_args.faucet_pubkey),
                  SystemAccount(IF IsSome(g_args.faucet_lamports)
                                THEN Unwrap(g_args.faucet_lamports) ELSE 0))
         ELSE g_accounts
    /\ g_pc' = "baseline"
    /\ UNCHANGED <<g_args, g_rent, g_poh, g_measured, g_iter, g_error, g_issued,
                   g_stdout, g_stderr, g_ledger, g_exit>>
    /\ NotGenesis

CONFIG_STATE_SIZE == 10

\* solana_stake_program::add_genesis_accounts: the stake-config account
AddGenesisAccounts ==
    /\ g_pc = "baseline"
    /\ g_accounts' = add_account(g_accounts, StakeConfigId,
                        [lamports |-> MaxOf(minimum_balance(g_rent, CONFIG_STATE_SIZE), 1),
                         space |-> CONFIG_STATE_SIZE, owner |-> "config_program",
                         state |-> [kind |-> "stake_config"]])
    /\ g_pc' = "issued"
    /\ UNCHANGED <<g_args, g_rent, g_poh, g_measured, g_iter, g_error, g_issued,
                   g_stdout, g_stderr, g_ledger, g_exit>>
    /\ NotGenesis

\* Mutant: the baseline accounts are left out of the total.
RECURSIVE SumLamports_without_baseline(_)
SumLamports_without_baseline(accounts) ==
    IF accounts = << >> THEN 0
    ELSE (IF Head(accounts).account.owner = "config_program" THEN 0
          ELSE Head(accounts).account.lamports)
         + SumLamports_without_baseline(Tail(accounts))

RECURSIVE SumLamports(_)
SumLamports(accounts) ==
    IF accounts = << >> THEN 0
    ELSE Head(accounts).account.lamports + SumLamports(Tail(accounts))

\* main: issued_lamports and its line on standard output.  Iterator::sum
\* on u64 panics on overflow where overflow checks are compiled in and
\* wraps where they are not.
ComputeIssuedLamports ==
    /\ g_pc = "issued"
    /\ LET exact == SumLamports(g_accounts) IN
       IF exact <= U64_MAX
       THEN /\ g_issued' = Some(exact)
            /\ g_stdout' = Append(g_stdout, [what |-> "issued", value |-> exact])
            /\ g_pc' = "ledger"
            /\ UNCHANGED <<g_exit, g_stderr>>
       ELSE \/ /\ g_issued' = Some(exact % (U64_MAX + 1))
               /\ g_stdout' = Append(g_stdout,
                                  [what |-> "issued", value |-> exact % (U64_MAX + 1)])
               /\ g_pc' = "ledger"
               /\ UNCHANGED <<g_exit, g_stderr>>
            \/ /\ GenesisExit(101, ERR_OVERFLOW)
               /\ UNCHANGED <<g_issued, g_stdout>>
    /\ UNCHANGED <<g_args, g_rent, g_poh, g_measured, g_accounts, g_iter, g_error,
                   g_ledger>>
    /\ NotGenesis

\* main: create_new_ledger(..)?
CreateNewLedger ==
    /\ g_pc = "ledger"
    /\ \E ok \in BOOLEAN :
         IF ok
         THEN /\ g_ledger' = Some([accounts |-> g_accounts, poh_config |-> g_poh,
                                   rent |-> g_rent,
                                   cluster_type |-> g_args.cluster_type])
              /\ g_pc' = "summary"
              /\ UNCHANGED <<g_exit, g_stderr>>
         ELSE /\ GenesisExit(1, ERR_LEDGER)
              /\ UNCHANGED g_ledger
    /\ UNCHANGED <<g_args, g_rent, g_poh, g_measured, g_accounts, g_iter, g_error,
                   g_issued, g_stdout>>
    /\ NotGenesis

\* main: println!("{genesis_config}"); Ok(())
PrintSummary ==
    /\ g_pc = "summary"
    /\ g_stdout' = Append(g_stdout, [what |-> "summary", value |-> Len(g_accounts)])
    /\ g_pc' = "exit"
    /\ g_exit' = Some(0)
    /\ UNCHANGED <<g_args, g_rent, g_poh, g_measured, g_accounts, g_iter, g_error,
                   g_issued, g_stderr, g_ledger>>
    /\ NotGenesis

-----------------------------------------------------------------------------
(***************************************************************************)
(* The specifications: one tool runs, the others stay idle.                *)
(***************************************************************************)
PctNext == CallParsePercentage

PctSpecInit == PctInit /\ PromptIdle /\ KeygenIdle /\ GenesisIdle
PctSpec     == PctSpecInit /\ [][PctNext]_vars

PromptNext == CallPromptPassphrase

PromptSpecInit == PctIdle /\ PromptInit /\ KeygenIdle /\ GenesisIdle
PromptSpec     == PromptSpecInit /\ [][PromptNext]_vars

KeygenNext ==
    \/ ResolveOutfile
    \/ GenerateMnemonic
    \/ AcquirePassphrase
    \/ DeriveKeypair
    \/ CheckForOverwrite
    \/ OutputKeypair
    \/ Display

KeygenSpecInit == PctIdle /\ PromptIdle /\ KeygenInit /\ GenesisIdle
KeygenSpec     == KeygenSpecInit /\ [][KeygenNext]_vars

GenesisNext ==
    \/ ParseBootstrapValidators
    \/ ResolveHashesPerTick
    \/ RentExemptCheck
    \/ AddValidatorTriple
    \/ FinishValidatorAccounts
    \/ InsertFaucet
    \/ AddGenesisAccounts
    \/ ComputeIssuedLamports
    \/ CreateNewLedger
    \/ PrintSummary

GenesisSpecInit == PctIdle /\ PromptIdle /\ KeygenIdle /\ GenesisInit
GenesisSpec     == GenesisSpecInit /\ [][GenesisNext]_vars

\* All four tools, each run on its own.
Init == PctSpecInit \/ PromptSpecInit \/ KeygenSpecInit \/ GenesisSpecInit
Next == PctNext \/ PromptNext \/ KeygenNext \/ GenesisNext
Spec == Init /\ [][Next]_vars

-----------------------------------------------------------------------------
(***************************************************************************)
(* Properties                                                              *)
(***************************************************************************)
\* A decimal numeral: an optional '+' and then one or more digits.
NumeralBody(s) == IF s # << >> /\ s[1] = "+" THEN Tail(s) ELSE s

IsNumeral(s) ==
    /\ NumeralBody(s) # << >>
    /\ \A i \in 1..Len(NumeralBody(s)) : NumeralBody(s)[i] \in Digits

\* The number a string of digits denotes.
RECURSIVE DigitsValue(_)
DigitsValue(d) ==
    IF d = << >> THEN 0
    ELSE DigitValue(d[Len(d)]) + 10 * DigitsValue(SubSeq(d, 1, Len(d) - 1))

NumeralValue(s) == DigitsValue(NumeralBody(s))

\* Some element occurs at two different positions.
HasRepeat(l) == \E i, j \in 1..Len(l) : i # j /\ l[i] = l[j]

KeysOf(accounts) == { accounts[i].key : i \in 1..Len(accounts) }

DupRejected    == g_stderr = << Line(ERR_DUPLICATE) >>
HashesRejected == g_stderr = << Line(ERR_HASHES) >>
RentRejected   == g_stderr = << Line(ERR_RENT) >>

\* The --hashes-per-tick match has been executed.
HashesResolved == g_pc \notin {"off", "pubkeys", "hashes"} /\ ~DupRejected

\* rent_exempt_check has been executed.
RentChecked == HashesResolved /\ g_pc # "rent_check" /\ ~HashesRejected

\* C1: a --bootstrap-validator list (a whole number of triples) is rejected
\* by the duplicate check, with the error on standard error, exit status 1,
\* no account synthesized and no ledger written, if and only if some pubkey
\* occurs at two different positions of the flattened list.
C1_DuplicateDetection ==
    g_pc \notin {"off", "pubkeys"} =>
        /\ Len(g_args.bootstrap_validator) % 3 = 0
        /\ DupRejected <=> HasRepeat(g_args.bootstrap_validator)
        /\ DupRejected => /\ g_pc = "exit"
                          /\ g_exit = Some(1)
                          /\ g_accounts = << >>
                          /\ g_iter = 0
                          /\ g_ledger = None

\* A list whose only repeat is across its two triples has been rejected.
C1_Witness ==
    /\ DupRejected
    /\ g_exit = Some(1)
    /\ Len(g_args.bootstrap_validator) = 6
    /\ g_args.bootstrap_validator[1] = g_args.bootstrap_validator[4]
    /\ Cardinality({ g_args.bootstrap_validator[i] : i \in 1..6 }) = 5

\* C2: with R the stake-account minimum balance under the configured rent,
\* add_validator_accounts fails exactly when stake_lamports < R, the error
\* carries provided = stake_lamports and required = R, the check precedes
\* the first triple, and on failure the account map is still empty.
C2_RentExemptionBoundary ==
    LET R     == minimum_balance(g_rent, STAKE_STATE_SIZE)
        stake == g_args.bootstrap_validator_stake_lamports
    IN  /\ g_pc = "rent_check" => g_iter = 0 /\ g_accounts = << >> /\ g_error = None
        /\ RentChecked => (RentRejected <=> stake < R)
        /\ RentChecked => (IsSome(g_error) <=> stake < R)
        /\ g_iter > 0 => RentChecked /\ ~RentRejected
        /\ RentRejected =>
             /\ IsSome(g_error)
             /\ Unwrap(g_error).provided = stake
             /\ Unwrap(g_error).required = R
             /\ g_accounts = << >>
             /\ g_iter = 0
             /\ g_ledger = None
             /\ g_exit = Some(1)

\* A stake funding of R - 1 has failed the check.
C2_Witness ==
    /\ RentRejected
    /\ IsSome(g_error)
    /\ Unwrap(g_error).required > 0
    /\ Unwrap(g_error).provided = Unwrap(g_error).required - 1

\* C3: prompt_passphrase issues one or two prompts and never a third: an
\* empty first entry returns Ok("") after one prompt; a non-empty first
\* entry is followed by exactly one confirmation prompt, and the call
\* returns Ok(first entry) when the second entry equals the first and the
\* mismatch error otherwise.
C3_PromptProtocol ==
    pp_pc = "done" =>
        LET first  == pp_terminal[1]
            second == pp_terminal[2]
        IN  /\ Len(pp_prompts) \in {1, 2}
            /\ pp_prompts[1] = Prompted(PROMPT_TEXT, first)
            /\ (first.io_ok /\ first.text = << >>) =>
                   /\ Len(pp_prompts) = 1
                   /\ pp_result = PassOk(<< >>)
            /\ (first.io_ok /\ first.text # << >>) =>
                   /\ Len(pp_prompts) = 2
                   /\ pp_prompts[2] = Prompted(CONFIRM_PROMPT, second)
                   /\ (second.io_ok /\ second.text = first.text)
                          => pp_result = PassOk(first.text)
                   /\ (second.io_ok /\ second.text # first.text)
                          => pp_result = PassErr(ERR_MISMATCH)

\* A mismatch has ended the call after two prompts, although the user's
\* next entry would have matched.
C3_Witness ==
    /\ pp_pc = "done"
    /\ pp_result = PassErr(ERR_MISMATCH)
    /\ Len(pp_prompts) = 2
    /\ pp_terminal[3] = pp_terminal[1]

\* acquire_passphrase_and_message has returned.
PassphraseAcquired ==
    \/ k_pc \in {"derive", "check", "output", "display"}
    \/ k_pc = "exit" /\ k_exit # ERR_UNKNOWN_ARG

\* C4: with --no-bip39-passphrase the passphrase is empty and no prompt is
\* issued; without it the user is prompted for a passphrase before any
\* confirmation.
C4_PassphraseModeSelection ==
    PassphraseAcquired =>
        IF k_args.no_passphrase
        THEN k_prompts = << >> /\ (k_exit # ERR_ACQUIRE => k_passphrase = << >>)
        ELSE /\ Len(k_prompts) >= 1
             /\ k_prompts[1].prompt = BIP39_PROMPT

OverwriteRefused == k_exit = ERR_OVERWRITE

\* C5: if the destination exists and --force is not set the run fails with
\* the overwrite refusal, the file keeps its content and output_keypair is
\* never called; if --force is set or the file does not exist the guard
\* passes, output_keypair is called with that path and, for a named file,
\* its successful return leaves the new keypair in the file.
C5_OverwriteGuard ==
    /\ OverwriteRefused =>
          /\ ~k_args.force
          /\ k_fs[Unwrap(k_outfile)] = FileOld
          /\ \A path \in KeygenPaths : k_fs[path] \in {FileAbsent, FileOld}
          /\ k_calls = << >>
          /\ k_pc = "exit"
    /\ k_pc = "output" =>
          /\ k_args.force \/ ~PathExists(k_fs, Unwrap(k_outfile))
          /\ k_calls = << >>
    /\ (k_pc = "display" \/ k_exit = "ok") /\ IsSome(k_outfile) =>
          /\ k_calls = << Unwrap(k_outfile) >>
          /\ Unwrap(k_outfile) # STDOUT_OUTFILE_TOKEN =>
                k_fs[Unwrap(k_outfile)] = FileKeypair(Unwrap(k_keypair))
    /\ k_calls # << >> => k_calls = << Unwrap(k_outfile) >>

\* With --force the guard has passed on a file that exists.
C5_Witness ==
    /\ k_pc = "output"
    /\ k_args.force
    /\ Unwrap(k_outfile) = "key.json"
    /\ k_fs["key.json"] = FileOld

\* C6: "auto" gives half the measured hashes on Development and the fixed
\* constant on the other cluster types, "sleep" gives no hash count, any
\* other literal that is a u64 numeral n gives n, and every other literal
\* ends the run with status 1 before any account or ledger exists.
C6_HashesPerTickResolution ==
    HashesResolved =>
        LET literal == g_args.hashes_per_tick
            cluster == g_args.cluster_type
            hashes  == g_poh.hashes_per_tick
        IN  IF literal = AUTO /\ cluster = "Development"
            THEN /\ ~HashesRejected
                 /\ IsSome(g_measured)
                 /\ hashes = Some(Unwrap(g_measured) \div 2)
            ELSE IF literal = AUTO
            THEN ~HashesRejected /\ hashes = Some(DEFAULT_HASHES_PER_TICK)
            ELSE IF literal = SLEEP
            THEN ~HashesRejected /\ hashes = None
            ELSE IF IsNumeral(literal) /\ NumeralValue(literal) <= U64_MAX
            THEN ~HashesRejected /\ hashes = Some(NumeralValue(literal))
            ELSE /\ HashesRejected
                 /\ g_pc = "exit"
                 /\ g_exit = Some(1)
                 /\ g_accounts = << >>
                 /\ g_ledger = None

\* A Development run with "auto" has taken half of an odd measurement.
C6_Witness ==
    /\ HashesResolved
    /\ g_args.hashes_per_tick = AUTO
    /\ g_args.cluster_type = "Development"
    /\ g_measured = Some(9)
    /\ g_poh.hashes_per_tick = Some(4)

\* C7: parse_percentage(s) is Ok(v) if and only if s is a numeral whose
\* value is at most 100, and then v is that value.
C7_ParsePercentageAccepts ==
    p_pc = "done" =>
        /\ p_result.ok <=> (IsNumeral(p_input) /\ NumeralValue(p_input) <= 100)
        /\ p_result.ok => p_result.value = NumeralValue(p_input)

\* "100" has been accepted as 100.
C7_Witness ==
    /\ p_pc = "done"
    /\ p_input = <<"1", "0", "0">>
    /\ p_result = PctOk(100)

\* C8 as stated: every numeral above 100 fails with the out-of-range
\* error, and the parse error is returned only for inputs that are not
\* numerals.
C8_ErrorClassification ==
    p_pc = "done" =>
        /\ (IsNumeral(p_input) /\ NumeralValue(p_input) > 100)
               => (~p_result.ok /\ p_result.msg = MSG_OUT_OF_RANGE)
        /\ (~p_result.ok /\ p_result.msg = MSG_UNABLE_TO_PARSE)
               => ~IsNumeral(p_input)

\* C8 (amended): a numeral from 101 to 255 fails with the out-of-range
\* error, which reports the value; the parse error is returned for every
\* input that is not a numeral and for every numeral above 255, the latter
\* because the value does not fit the unsigned 8-bit type.
C8_ErrorClassificationU8 ==
    p_pc = "done" =>
        LET numeral == IsNumeral(p_input)
            value   == NumeralValue(p_input)
        IN  /\ (~p_result.ok /\ p_result.msg = MSG_OUT_OF_RANGE)
                   <=> (numeral /\ value > 100 /\ value <= 255)
            /\ (~p_result.ok /\ p_result.msg = MSG_UNABLE_TO_PARSE)
                   <=> (~numeral \/ value > 255)
            /\ (numeral /\ value > 100 /\ value <= 255) => p_result.provided = value
            /\ (numeral /\ value > 255) => p_result.err = "PosOverflow"
            /\ (~p_result.ok /\ p_result.msg = MSG_UNABLE_TO_PARSE)
                   => p_result.provided = p_input

\* "256" has failed with the parse error.
C8_Witness ==
    /\ p_pc = "done"
    /\ p_input = <<"2", "5", "6">>
    /\ p_result = PctErr(MSG_UNABLE_TO_PARSE, <<"2", "5", "6">>, "PosOverflow")

\* C9: when add_validator_accounts returns Ok for a list of n triples the
\* config holds exactly 3n accounts: a system account under each identity
\* key, a vote account under each vote key, a stake account under each
\* stake key, and nothing under any other key.
C9_SynthesizerOutputSize ==
    g_pc = "faucet" =>
        LET pubkeys == g_args.bootstrap_validator
            n       == Len(pubkeys) \div 3
        IN  /\ Len(g_accounts) = 3 * n
            /\ Cardinality(KeysOf(g_accounts)) = 3 * n
            /\ KeysOf(g_accounts) = { pubkeys[i] : i \in 1..Len(pubkeys) }
            /\ \A p \in 1..Len(g_accounts) : \E i \in 1..Len(pubkeys) :
                   /\ g_accounts[p].key = pubkeys[i]
                   /\ g_accounts[p].account.owner =
                        CASE i % 3 = 1 -> "system_program"
                          [] i % 3 = 2 -> "vote_program"
                          [] OTHER     -> "stake_program"

\* Two triples have been synthesized into six accounts.
C9_Witness ==
    /\ g_pc = "faucet"
    /\ Len(g_args.bootstrap_validator) = 6
    /\ Len(g_accounts) = 6

\* The position of a key in the account collection.
PositionOf(accounts, key) == CHOOSE p \in 1..Len(accounts) : accounts[p].key = key

\* C10 as stated: in the produced account collection every account of
\* triple i precedes every account of triple j, for i < j.
C10_InputOrder ==
    g_pc = "faucet" =>
        LET pubkeys == g_args.bootstrap_validator IN
        \A i, j \in 1..Len(pubkeys) :
            (i - 1) \div 3 < (j - 1) \div 3
                => PositionOf(g_accounts, pubkeys[i]) < PositionOf(g_accounts, pubkeys[j])

\* C10 (amended): the triples are processed in input order, the accounts
\* present after k iterations being those of the first k triples; the
\* account collection itself is ordered by pubkey, whatever the input order.
C10_KeyOrder ==
    /\ \A p \in 1..(Len(g_accounts) - 1) : g_accounts[p].key < g_accounts[p + 1].key
    /\ g_pc \in {"loop", "faucet"} =>
          /\ g_iter % 3 = 0
          /\ g_iter <= Len(g_args.bootstrap_validator)
          /\ KeysOf(g_accounts) = { g_args.bootstrap_validator[i] : i \in 1..g_iter }
    /\ g_pc = "faucet" => g_iter = Len(g_args.bootstrap_validator)

\* The accounts of the second triple all precede those of the first.
C10_Witness ==
    /\ g_pc = "faucet"
    /\ Len(g_args.bootstrap_validator) = 6
    /\ \A i \in 1..3 : \A j \in 4..6 :
          /\ g_args.bootstrap_validator[j] < g_args.bootstrap_validator[i]
          /\ PositionOf(g_accounts, g_args.bootstrap_validator[j])
                < PositionOf(g_accounts, g_args.bootstrap_validator[i])

\* The keys of the --bootstrap-validator list.
BootstrapKeys == { g_args.bootstrap_validator[i] : i \in 1..Len(g_args.bootstrap_validator) }

\* The account the collection holds under a key.
AccountAt(accounts, key) == accounts[PositionOf(accounts, key)].account

\* C11: a faucet account is inserted only when both the faucet pubkey and
\* the faucet lamport amount are present: a run without --faucet-lamports
\* leaves the accounts as the synthesizer produced them, and an inserted
\* faucet account has the given lamports, no data and the system program
\* as owner.
C11_FaucetInsertion ==
    g_pc = "baseline" =>
        IF IsSome(g_args.faucet_pubkey) /\ IsSome(g_args.faucet_lamports)
        THEN /\ Unwrap(g_args.faucet_pubkey) \in KeysOf(g_accounts)
             /\ LET faucet == AccountAt(g_accounts, Unwrap(g_args.faucet_pubkey))
                IN  /\ faucet.lamports = Unwrap(g_args.faucet_lamports)
                    /\ faucet.space = 0
                    /\ faucet.owner = "system_program"
        ELSE /\ KeysOf(g_accounts) = BootstrapKeys
             /\ Len(g_accounts) = Len(g_args.bootstrap_validator)

\* The mathematical sum of the balances of the first n accounts.
RECURSIVE BalanceOfFirst(_, _)
BalanceOfFirst(accounts, n) ==
    IF n = 0 THEN 0
    ELSE BalanceOfFirst(accounts, n - 1) + accounts[n].account.lamports

TotalBalance(accounts) == BalanceOfFirst(accounts, Len(accounts))

\* The u64 value of the accumulator after adding every balance.
U64Sum(accounts) == TotalBalance(accounts) % (U64_MAX + 1)

LedgerInvoked == IsSome(g_ledger) \/ g_stderr = << Line(ERR_LEDGER) >>

\* The --hashes-per-tick literal is one the resolution accepts.
HashesLiteralValid ==
    \/ g_args.hashes_per_tick \in {AUTO, SLEEP}
    \/ /\ IsNumeral(g_args.hashes_per_tick)
       /\ NumeralValue(g_args.hashes_per_tick) <= U64_MAX

SummaryPrinted == \E i \in 1..Len(g_stdout) : g_stdout[i].what = "summary"

\* C13: the Ledger Writer is invoked at most once and only after the
\* duplicate check, the hashes-per-tick parse and the rent-exemption check
\* have passed; a failure of any of them ends the run with a failure
\* status and no ledger; a successful run prints the issued total and then
\* the summary, and the summary is printed only after the Ledger Writer
\* returned success.
C13_GenesisRunOrdering ==
    /\ [](/\ (g_pc = "ledger" \/ LedgerInvoked) =>
                /\ ~HasRepeat(g_args.bootstrap_validator)
                /\ HashesLiteralValid
                /\ g_args.bootstrap_validator_stake_lamports
                      >= minimum_balance(g_rent, STAKE_STATE_SIZE)
                /\ ~DupRejected /\ ~HashesRejected /\ ~RentRejected
          /\ (DupRejected \/ HashesRejected \/ RentRejected) =>
                /\ g_pc = "exit"
                /\ g_exit = Some(1)
                /\ g_ledger = None
                /\ g_stdout = << >>
          /\ (g_pc = "hashes" /\ HasRepeat(g_args.bootstrap_validator)) => FALSE
          /\ (g_pc = "rent_check" /\ ~HashesLiteralValid) => FALSE
          /\ (g_pc = "loop" /\ g_args.bootstrap_validator_stake_lamports
                                  < minimum_balance(g_rent, STAKE_STATE_SIZE)) => FALSE
          /\ SummaryPrinted =>
                /\ IsSome(g_ledger)
                /\ Len(g_stdout) = 2
                /\ g_stdout[1].what = "issued"
                /\ g_stdout[2].what = "summary"
                /\ g_exit = Some(0)
          /\ g_exit = Some(0) => SummaryPrinted
          /\ (IsSome(g_exit) /\ g_exit # Some(0)) => g_ledger = None)
    /\ [][/\ g_pc = "ledger" => g_pc' \in {"summary", "exit"}
          /\ g_pc \in {"summary", "exit"} => g_pc' \in {"summary", "exit"}
          /\ IsSome(g_ledger) => g_ledger' = g_ledger
          /\ LedgerInvoked => g_pc' # "ledger"]_vars

\* A run has ended with success: ledger written, total then summary.
C13_Witness ==
    /\ g_exit = Some(0)
    /\ IsSome(g_ledger)
    /\ Len(g_stdout) = 2
    /\ g_stdout[1].what = "issued"
    /\ g_stdout[2].what = "summary"

\* C14: with the sentinel "-" as output path the keypair goes to standard
\* output and no file is created or modified, and the overwrite refusal
\* does not apply: the run does not depend on any filesystem entry nor on
\* --force.
C14_StdoutSentinel ==
    (IsSome(k_outfile) /\ Unwrap(k_outfile) = STDOUT_OUTFILE_TOKEN) =>
        /\ ~OverwriteRefused
        /\ \A path \in KeygenPaths : k_fs[path] \in {FileAbsent, FileOld}
        /\ (k_pc = "display" \/ k_exit = "ok") =>
              \E i \in 1..Len(k_stdout) :
                  k_stdout[i] = [what |-> "keypair", keypair |-> Unwrap(k_keypair)]

SeedPrinted == \E i \in 1..Len(k_stdout) : k_stdout[i].what = "seed"

\* C15: the seed phrase and the derived public key are printed if and only
\* if --silent is not set and passphrase acquisition, key derivation, the
\* overwrite check and the keypair write (when an output path is set) have
\* all succeeded; with --silent the phrase is never printed; what is
\* printed carries the phrase, the public key and the fixed passphrase
\* notice, never the passphrase.
C15_DisplayRule ==
    /\ SeedPrinted =>
          /\ ~k_args.silent
          /\ k_exit = "ok"
          /\ IsSome(k_mnemonic) /\ IsSome(k_keypair)
          /\ Unwrap(k_keypair) = KeypairFromSeed(Unwrap(k_mnemonic), k_passphrase)
          /\ IsSome(k_outfile) =>
                /\ k_args.force \/ k_fs[Unwrap(k_outfile)] # FileOld
                /\ k_calls = << Unwrap(k_outfile) >>
          /\ k_stdout[Len(k_stdout)] =
                [what |-> "seed", pubkey |-> PubkeyOf(Unwrap(k_keypair)),
                 message |-> k_message, phrase |-> Unwrap(k_mnemonic)]
          /\ k_message \in {"", BIP39_MESSAGE}
          /\ \A i \in 1..(Len(k_stdout) - 1) : k_stdout[i].what # "seed"
    /\ (k_exit = "ok" /\ ~k_args.silent) => SeedPrinted
    /\ k_args.silent => ~SeedPrinted
    /\ k_exit \in {ERR_UNKNOWN_ARG, ERR_ACQUIRE, ERR_OVERWRITE, ERR_WRITE} => ~SeedPrinted

\* A run without --silent has written the keypair file and printed the
\* seed phrase.
C15_Witness ==
    /\ k_exit = "ok"
    /\ ~k_args.silent
    /\ SeedPrinted
    /\ k_calls = << "key.json" >>

\* C16: --target-tick-duration is a number of milliseconds: for a supplied
\* N the PoH target tick duration is N * 1000 microseconds, and without the
\* option it is the PoH default.
C16_TargetTickDurationUnit ==
    (HashesResolved /\ ~HashesRejected) =>
        g_poh.target_tick_duration =
            IF IsSome(g_args.target_tick_duration)
            THEN Unwrap(g_args.target_tick_duration) * 1000
            ELSE DEFAULT_TICK_MICROS

\* C17: in every genesis configuration handed to the Ledger Writer the
\* hash count per tick is none or a strictly positive integer.
C17_HashCountPositive ==
    (g_pc = "ledger" \/ LedgerInvoked) =>
        \/ g_poh.hashes_per_tick = None
        \/ Unwrap(g_poh.hashes_per_tick) > 0

\* The issued-lamports computation has been executed.
IssuedComputed == IsSome(g_issued) \/ g_stderr = << Line(ERR_OVERFLOW) >>

\* C18: for every accepted combination of inputs the reported issued
\* total is the exact mathematical sum of all account balances: the u64
\* accumulator neither overflows nor wraps.
C18_IssuedLamportsExact ==
    IssuedComputed =>
        /\ TotalBalance(g_accounts) <= U64_MAX
        /\ g_issued = Some(TotalBalance(g_accounts))
        /\ g_exit # Some(101)

\* The number of triples of the --bootstrap-validator list.
TripleCount == Len(g_args.bootstrap_validator) \div 3

IdentityOf(t) == g_args.bootstrap_validator[3 * t - 2]
VoteOf(t)     == g_args.bootstrap_validator[3 * t - 1]
StakeOf(t)    == g_args.bootstrap_validator[3 * t]

\* C19: after add_validator_accounts, for each triple the config holds
\* under the identity key a system account with the bootstrap lamports and
\* no data; under the vote key a vote account whose node, voter and
\* withdrawer are the triple's identity, with the given commission and
\* max(vote rent-exempt reserve, 1) lamports; under the stake key a stake
\* account with stake_lamports, delegated to the triple's vote key, whose
\* authority is --bootstrap-stake-authorized-pubkey if given and the
\* triple's own identity otherwise.
C19_PerTripleSynthesis ==
    g_pc = "faucet" =>
        \A t \in 1..TripleCount :
            LET identity == AccountAt(g_accounts, IdentityOf(t))
                vote     == AccountAt(g_accounts, VoteOf(t))
                stake    == AccountAt(g_accounts, StakeOf(t))
                reserve  == minimum_balance(g_rent, VOTE_STATE_SIZE)
                authority == IF IsSome(g_args.bootstrap_stake_authorized_pubkey)
                             THEN Unwrap(g_args.bootstrap_stake_authorized_pubkey)
                             ELSE IdentityOf(t)
            IN  /\ {IdentityOf(t), VoteOf(t), StakeOf(t)} \subseteq KeysOf(g_accounts)
                /\ identity.lamports = g_args.bootstrap_validator_lamports
                /\ identity.space = 0
                /\ identity.owner = "system_program"
                /\ vote.owner = "vote_program"
                /\ vote.state.node_pubkey = IdentityOf(t)
                /\ vote.state.authorized_voter = IdentityOf(t)
                /\ vote.state.authorized_withdrawer = IdentityOf(t)
                /\ vote.state.commission = g_args.vote_commission_percentage
                /\ vote.lamports = IF reserve >= 1 THEN reserve ELSE 1
                /\ stake.owner = "stake_program"
                /\ stake.lamports = g_args.bootstrap_validator_stake_lamports
                /\ stake.state.voter_pubkey = VoteOf(t)
                /\ stake.state.staker = authority
                /\ stake.state.withdrawer = authority

\* Two triples have been synthesized without a stake authority argument:
\* the second stake account is under the second identity's authority.
C19_Witness ==
    /\ g_pc = "faucet"
    /\ TripleCount = 2
    /\ g_args.bootstrap_stake_authorized_pubkey = None
    /\ AccountAt(g_accounts, StakeOf(2)).state.staker = IdentityOf(2)
    /\ AccountAt(g_accounts, StakeOf(1)).state.staker = IdentityOf(1)
    /\ AccountAt(g_accounts, VoteOf(2)).state.node_pubkey = IdentityOf(2)

\* The faucet step of main has been executed.
FaucetStepDone == g_pc \in {"baseline", "issued", "ledger", "summary"} \/ IssuedComputed

\* C20: no step after add_validator_accounts replaces the account stored
\* under a bootstrap pubkey: under every identity, vote and stake key the
\* config still holds the account the synthesizer created, also when the
\* faucet pubkey is one of the bootstrap pubkeys.
C20_NoBootstrapOverwrite ==
    FaucetStepDone =>
        \A t \in 1..TripleCount :
            LET identity == AccountAt(g_accounts, IdentityOf(t))
                vote     == AccountAt(g_accounts, VoteOf(t))
                stake    == AccountAt(g_accounts, StakeOf(t))
            IN  /\ identity.owner = "system_program"
                /\ identity.lamports = g_args.bootstrap_validator_lamports
                /\ vote.owner = "vote_program"
                /\ vote.state.node_pubkey = IdentityOf(t)
                /\ stake.owner = "stake_program"
                /\ stake.lamports = g_args.bootstrap_validator_stake_lamports
                /\ stake.state.voter_pubkey = VoteOf(t)

\* C21: when --bootstrap-validator-stake-lamports is omitted, the default
\* that is used is at least the stake-account minimum balance under the
\* rent schedule of the genesis config, so the run never fails the
\* rent-exemption check.
C21_DefaultStakeRentExempt ==
    (g_args.stake_lamports_source = "default" /\ g_pc # "pubkeys") =>
        /\ g_args.bootstrap_validator_stake_lamports
              >= minimum_balance(g_rent, STAKE_STATE_SIZE)
        /\ ~RentRejected

=============================================================================
